---- MODULE Spec2Model ----
(***************************************************************************)
(* State-machine model of the rex360 backend.  The repository holds six    *)
(* iterations of one Express server (src/server.js, src/api/index.js.js,   *)
(* src/unnamed/part_000 .. part_003).  One iteration is deployed at a      *)
(* time (variable `variant`); every route handler of that iteration is one *)
(* action.  The managed database, object storage, identity service, mailer *)
(* and payment gateway are external: each call to them draws its outcome   *)
(* (success, returned error, thrown error) nondeterministically.           *)
(***************************************************************************)
EXTENDS Integers, Sequences, FiniteSets, TLC

\* ------------------------------------------------------------------ bounds
MaxReq == 2      \* requests handled in one behaviour
MaxRows == 2     \* row identifiers per table
MaxClock == 1    \* clock ticks (Date.now() advances)

\* --------------------------------------------------------------- universes
Variants == {"server", "api_index", "part_000", "part_001", "part_002", "part_003"}

RowIds == 1..MaxRows
NoRow == "none"
Vals == {"x", "y"}
Tables == {"posts", "slides", "services", "content_assets", "agent_profile"}

AdminEmail == "rex360solutions@gmail.com"
OtherEmail == "someone@else.com"
NoUser == "nobody"

ApplicantEmails == {"ada@mail.com", "bob@mail.com"}
Refs == {"ref1", "ref2"}
Statuses == {"pending", "completed"}

\* Authorization header, as the list of its space-separated words.
NoHeader == <<>>
\* "invalid" is a token the identity service rejects (malformed or expired),
\* "other" a valid token of another user, "admin" a valid token of the
\* administrator.
AuthHeaders ==
  {NoHeader, <<"Bearer">>, <<"Bearer", "invalid">>, <<"Bearer", "other">>,
   <<"Bearer", "admin">>}
AuthFaults == {"none", "error", "throw"}

DbResults == {"ok", "error"}
LogResults == {"ok", "error", "throw"}
MailResults == {"ok", "reject"}

\* "no response was written" (the request hangs or the connection drops)
NoResponse == 0
\* An async handler that rejects: Express 4 writes no response, a framework
\* that forwards the rejection answers 500 from its default error handler.
Unhandled == {NoResponse, 500}

VARIABLES variant, clock, db, applications, storage, audit_logs, outbox, last, nreq

vars == <<variant, clock, db, applications, storage, audit_logs, outbox, last, nreq>>

\* ------------------------------------------------------------ store helpers
EmptyTable == [id \in RowIds |-> NoRow]
FreeIds(rows) == {id \in RowIds : rows[id] = NoRow}
HasFree(rows) == FreeIds(rows) # {}
FreshId(rows) == CHOOSE id \in FreeIds(rows) : \A j \in FreeIds(rows) : id <= j

InsertRow(tbl, v) == [db EXCEPT ![tbl][FreshId(db[tbl])] = v]
DeleteRow(tbl, id) == [db EXCEPT ![tbl][id] = NoRow]
UpdateRow(tbl, id, v) == IF db[tbl][id] = NoRow THEN db ELSE [db EXCEPT ![tbl][id] = v]
UpsertRow(tbl, id, v) == [db EXCEPT ![tbl][id] = v]

\* The stored state a handler may change, and a handler's outcome: the new
\* stored state plus the response it wrote.
Keep ==
  [db |-> db, applications |-> applications, storage |-> storage,
   audit_logs |-> audit_logs, outbox |-> outbox]

NoChange == [db |-> db]

NoApp == [exists |-> FALSE, email |-> "", payment_ref |-> "", status |-> "", is_express |-> FALSE]
AppFreeIds == {id \in RowIds : ~applications[id].exists}
AppFreshId == CHOOSE id \in AppFreeIds : \A j \in AppFreeIds : id <= j

\* A JavaScript number: NaN, or an integer value.
NoAmount == [nan |-> TRUE, val |-> 0]

\* No Origin request header / no Access-Control-Allow-Origin response header.
NoOrigin == <<>>

\* No storage key was built for the request.
NoKey == [bucket |-> "", folder |-> "", time |-> 0, name |-> <<>>]

NoBody == [event |-> "none", email |-> "", ref |-> "", spaced |-> FALSE]

Blank ==
  [route |-> "", authHeader |-> NoHeader, authFault |-> "none", status |-> NoResponse,
   user |-> NoUser, guarded |-> FALSE, handler |-> FALSE, logCalls |-> 0, leak |-> FALSE,
   id |-> 0, newStatus |-> "", email |-> "", raw |-> NoBody, sig |-> <<>>,
   amount |-> <<>>, sent |-> NoAmount, gatewayCalls |-> 0,
   gateway |-> "none", key |-> NoKey, origin |-> NoOrigin, acao |-> NoOrigin,
   html |-> FALSE, lookup |-> "none", query |-> "", found |-> 0]

Outcome(resp, changes) == [resp |-> resp @@ Blank] @@ changes @@ Keep

Commit(o) ==
  /\ nreq < MaxReq
  /\ nreq' = nreq + 1
  /\ last' = o.resp
  /\ db' = o.db
  /\ applications' = o.applications
  /\ storage' = o.storage
  /\ audit_logs' = o.audit_logs
  /\ outbox' = o.outbox
  /\ UNCHANGED <<variant, clock>>

\* ------------------------------------------------------- admin authenticator
\* authHeader.split(' ')[1]
SplitToken(authHeader) == IF Len(authHeader) >= 2 THEN authHeader[2] ELSE "undefined"

\* supabase.auth.getUser(token): the identity service resolves a token to a
\* user, returns an error, or the call throws.
getUser(token, fault) ==
  IF fault = "throw" THEN [threw |-> TRUE, error |-> FALSE, user |-> NoUser]
  ELSE IF fault = "error" THEN [threw |-> FALSE, error |-> TRUE, user |-> NoUser]
  ELSE IF token = "admin" THEN [threw |-> FALSE, error |-> FALSE, user |-> AdminEmail]
  ELSE IF token = "other" THEN [threw |-> FALSE, error |-> FALSE, user |-> OtherEmail]
  ELSE [threw |-> FALSE, error |-> TRUE, user |-> NoUser]

verifyAdmin(authHeader, fault) ==
  IF authHeader = NoHeader
  THEN [next |-> FALSE, status |-> 401, user |-> NoUser]
  ELSE LET r == getUser(SplitToken(authHeader), fault) IN
       IF r.threw THEN [next |-> FALSE, status |-> 401, user |-> NoUser]
       ELSE IF r.error \/ r.user = NoUser \/ r.user # AdminEmail
       THEN [next |-> FALSE, status |-> 403, user |-> NoUser]
       ELSE [next |-> TRUE, status |-> NoResponse, user |-> r.user]

\* A route registered without verifyAdmin: the handler always runs.
NoGuard == [next |-> TRUE, status |-> NoResponse, user |-> NoUser]

\* The response verifyAdmin wrote when it did not call next().
Denied(route, hdr, af, auth) ==
  Outcome([route |-> route, authHeader |-> hdr, authFault |-> af, guarded |-> TRUE,
           status |-> auth.status], NoChange)

\* logAction without its catch: a thrown insert propagates to the caller.
logActionRethrows(email, action, details, lg) ==
  [threw |-> lg = "throw",
   logs |-> IF lg = "ok"
            THEN Append(audit_logs,
                        [admin_email |-> email, action_type |-> action, details |-> details])
            ELSE audit_logs]

\* ------------------------------------------------------------- audit logger
logAction(email, action, details, lg) ==
  [threw |-> FALSE,
   logs |-> IF lg = "ok"
            THEN Append(audit_logs,
                        [admin_email |-> email, action_type |-> action, details |-> details])
            ELSE audit_logs]

\* ------------------------------------------------ src/server.js: admin routes
\* The shape shared by the admin mutations of src/server.js: verifyAdmin, one
\* database call, `if (error) return res.status(..).json(error)`, then
\* `await logAction(req.user.email, ..)` and the success response.
ServerMutation(route, hdr, af, dbr, lg, uh, changes, action, details, errStatus) ==
  LET auth == verifyAdmin(hdr, af)
      base == [route |-> route, authHeader |-> hdr, authFault |-> af, guarded |-> TRUE,
               handler |-> TRUE, user |-> auth.user]
  IN IF ~auth.next THEN Denied(route, hdr, af, auth)
     ELSE IF dbr = "error"
     THEN Outcome([status |-> errStatus, leak |-> TRUE] @@ base, NoChange)
     ELSE LET l == logAction(auth.user, action, details, lg) IN
          Outcome([status |-> IF l.threw THEN uh ELSE 200, logCalls |-> 1] @@ base,
                  [audit_logs |-> l.logs] @@ changes)

Server_PostSlides(hdr, af, v, dbr, lg, uh) ==
  ServerMutation("POST /api/slides", hdr, af, dbr, lg, uh,
                 [db |-> InsertRow("slides", v)], "SLIDE_ADD", <<"Added kinetic slide", v>>, 500)

Server_DeleteSlide(hdr, af, id, dbr, lg, uh) ==
  ServerMutation("DELETE /api/slides/:id", hdr, af, dbr, lg, uh,
                 [db |-> DeleteRow("slides", id)], "SLIDE_DELETE",
                 <<"Removed slide", ToString(id)>>, 500)

Server_PutAgentProfile(hdr, af, v, dbr, lg, uh) ==
  ServerMutation("PUT /api/agent-profile", hdr, af, dbr, lg, uh,
                 [db |-> UpsertRow("agent_profile", 1, v)], "PROFILE_SYNC",
                 <<"Updated agency identity photo", "">>, 500)

Server_PutService(hdr, af, id, v, dbr, lg, uh) ==
  ServerMutation("PUT /api/services/:id", hdr, af, dbr, lg, uh,
                 [db |-> UpdateRow("services", id, v)], "FINANCIAL_MOD",
                 <<"Service updated to", v>>, 500)

Server_PostPosts(hdr, af, v, dbr, lg, uh) ==
  ServerMutation("POST /api/posts", hdr, af, dbr, lg, uh,
                 [db |-> InsertRow("posts", v)], "POST_ADD", <<"Published news", v>>, 500)

Server_PutPost(hdr, af, id, v, dbr, lg, uh) ==
  ServerMutation("PUT /api/posts/:id", hdr, af, dbr, lg, uh,
                 [db |-> UpdateRow("posts", id, v)], "POST_UPDATE", <<"Updated post", v>>, 500)

Server_DeletePost(hdr, af, id, dbr, lg, uh) ==
  ServerMutation("DELETE /api/posts/:id", hdr, af, dbr, lg, uh,
                 [db |-> DeleteRow("posts", id)], "POST_DELETE",
                 <<"Removed post", ToString(id)>>, 500)

Server_PostContent(hdr, af, v, dbr, lg, uh) ==
  ServerMutation("POST /api/content", hdr, af, dbr, lg, uh,
                 [db |-> InsertRow("content_assets", v)], "CONTENT_ADD", <<"Added asset", v>>, 500)

Server_DeleteContent(hdr, af, id, dbr, lg, uh) ==
  ServerMutation("DELETE /api/content/:id", hdr, af, dbr, lg, uh,
                 [db |-> DeleteRow("content_assets", id)], "CONTENT_DELETE",
                 <<"Removed asset", ToString(id)>>, 500)

\* An express toggle that also writes the status column.
ExpressUpdateAlsoStatus(row, isExpress) ==
  [row EXCEPT !.is_express = isExpress, !.status = "completed"]

\* .update({ is_express: isExpress }).eq('id', id)
ExpressUpdate(row, isExpress) == [row EXCEPT !.is_express = isExpress]

Server_PutExpress(hdr, af, id, isExpress, dbr, lg, uh) ==
  ServerMutation("PUT /api/applications/:id/express", hdr, af, dbr, lg, uh,
                 [applications |->
                    IF applications[id].exists
                    THEN [applications EXCEPT ![id] = ExpressUpdate(@, isExpress)]
                    ELSE applications],
                 "EXPRESS_TOGGLE",
                 <<IF isExpress THEN "Express mode enabled" ELSE "Express mode disabled",
                   ToString(id)>>, 400)

\* Admin reads: verifyAdmin, select, res.json(data || []).
Server_AdminGet(route, hdr, af) ==
  LET auth == verifyAdmin(hdr, af) IN
  IF ~auth.next THEN Denied(route, hdr, af, auth)
  ELSE Outcome([route |-> route, authHeader |-> hdr, authFault |-> af, guarded |-> TRUE,
                handler |-> TRUE, user |-> auth.user, status |-> 200], NoChange)

\* --------------------------------------- PUT /api/applications/:id/status
\* .update({ status }).eq('id', id)
StatusUpdate(id, status) ==
  IF applications[id].exists
  THEN [applications EXCEPT ![id].status = status]
  ELSE applications

\* src/server.js: `if (status === 'completed' && !error)`
ShouldNotify(status, error) == status = "completed" /\ ~error

CompletionMail(email) == [to |-> email, kind |-> "registration_complete", ref |-> ""]

\* src/server.js: no try/catch.  A rejected sendMail, or `data[0]` on the null
\* data of a failed update, rejects the handler.
Server_PutStatus(hdr, af, id, status, email, dbr, mr, lg, uh) ==
  LET route == "PUT /api/applications/:id/status"
      auth == verifyAdmin(hdr, af)
      base == [route |-> route, authHeader |-> hdr, authFault |-> af, guarded |-> TRUE,
               handler |-> TRUE, user |-> auth.user, id |-> id, newStatus |-> status,
               email |-> email]
      error == dbr = "error"
      apps2 == IF error THEN applications ELSE StatusUpdate(id, status)
      notify == ShouldNotify(status, error)
  IN IF ~auth.next THEN Denied(route, hdr, af, auth)
     ELSE IF notify /\ mr = "reject"
     THEN Outcome([status |-> uh] @@ base, [applications |-> apps2])
     ELSE LET out2 == IF notify THEN Append(outbox, CompletionMail(email)) ELSE outbox
              l == logAction(auth.user, "STATUS_UPDATE", <<"moved to", status>>, lg)
          IN Outcome([status |-> IF error \/ l.threw THEN uh ELSE 200, logCalls |-> 1] @@ base,
                     [applications |-> apps2, outbox |-> out2, audit_logs |-> l.logs])

\* src/unnamed/part_003: the whole handler is inside try/catch.
Part003_PutStatus(hdr, af, id, status, email, dbr, mr, lg) ==
  LET route == "PUT /api/applications/:id/status"
      auth == verifyAdmin(hdr, af)
      base == [route |-> route, authHeader |-> hdr, authFault |-> af, guarded |-> TRUE,
               handler |-> TRUE, user |-> auth.user, id |-> id, newStatus |-> status,
               email |-> email]
      apps2 == StatusUpdate(id, status)
  IN IF ~auth.next THEN Denied(route, hdr, af, auth)
     ELSE IF dbr = "error" THEN Outcome([status |-> 500] @@ base, NoChange)
     ELSE IF status = "completed" /\ mr = "reject"
     THEN Outcome([status |-> 500] @@ base, [applications |-> apps2])
     ELSE LET out2 == IF status = "completed"
                      THEN Append(outbox, CompletionMail(email)) ELSE outbox
              l == logAction(auth.user, "STATUS_CHANGE", <<"set to", status>>, lg)
          IN Outcome([status |-> IF l.threw THEN 500 ELSE 200, logCalls |-> 1] @@ base,
                     [applications |-> apps2, outbox |-> out2, audit_logs |-> l.logs])

\* ------------------------------------------------------------ media relay
\* A file name is the list of its characters.
FileNames == {<<"a", ".", "p">>, <<"b", " ", ".", "p">>}
NoFile == <<>>
StorageResults == {"ok", "error"}

ObjectKey(bucket, folder, time, name) ==
  [bucket |-> bucket, folder |-> folder, time |-> time, name |-> name]

\* supabase.storage.from(bucket).upload(key, ..): fails on a returned error and
\* on a key that already holds an object (no upsert option is passed).
UploadFails(key, sr) == sr = "error" \/ key \in storage

\* src/server.js POST /api/admin/upload
Server_Upload(hdr, af, file, sr) ==
  LET route == "POST /api/admin/upload"
      auth == verifyAdmin(hdr, af)
      base == [route |-> route, authHeader |-> hdr, authFault |-> af, guarded |-> TRUE,
               handler |-> TRUE, user |-> auth.user]
      key == ObjectKey("assets", "agency", clock, file)
  IN IF ~auth.next THEN Denied(route, hdr, af, auth)
     ELSE IF file = NoFile THEN Outcome([status |-> 500] @@ base, NoChange)
     ELSE IF UploadFails(key, sr) THEN Outcome([status |-> 500, key |-> key] @@ base, NoChange)
     ELSE Outcome([status |-> 200, key |-> key] @@ base, [storage |-> storage \cup {key}])

\* src/unnamed/part_003 POST /api/admin/upload
Part003_Upload(hdr, af, file, sr) ==
  LET route == "POST /api/admin/upload"
      auth == verifyAdmin(hdr, af)
      base == [route |-> route, authHeader |-> hdr, authFault |-> af, guarded |-> TRUE,
               handler |-> TRUE, user |-> auth.user]
      key == ObjectKey("assets", "assets", clock, file)
  IN IF ~auth.next THEN Denied(route, hdr, af, auth)
     ELSE IF file = NoFile THEN Outcome([status |-> 500] @@ base, NoChange)
     ELSE IF UploadFails(key, sr) THEN Outcome([status |-> 500, key |-> key] @@ base, NoChange)
     ELSE Outcome([status |-> 200, key |-> key] @@ base, [storage |-> storage \cup {key}])

\* src/unnamed/part_003 PUT /api/services/:id
Part003_PutService(hdr, af, id, v, dbr, lg) ==
  LET route == "PUT /api/services/:id"
      auth == verifyAdmin(hdr, af)
      base == [route |-> route, authHeader |-> hdr, authFault |-> af, guarded |-> TRUE,
               handler |-> TRUE, user |-> auth.user]
  IN IF ~auth.next THEN Denied(route, hdr, af, auth)
     ELSE IF dbr = "error" THEN Outcome([status |-> 500] @@ base, NoChange)
     ELSE LET l == logAction(auth.user, "PRICE_UPDATE", <<"Service updated to", v>>, lg) IN
          Outcome([status |-> IF l.threw THEN 500 ELSE 200, logCalls |-> 1] @@ base,
                  [db |-> UpdateRow("services", id, v), audit_logs |-> l.logs])

\* src/unnamed/part_003 POST /api/applications: insert the submitted form, then
\* mail the agency; both inside one try/catch.
FilingMail == [to |-> AdminEmail, kind |-> "new_filing", ref |-> ""]

Part003_PostApplication(hdr, form, dbr, mr) ==
  LET base == [route |-> "POST /api/applications", authHeader |-> hdr, handler |-> TRUE,
               email |-> form.email]
      apps2 == [applications EXCEPT ![AppFreshId] = form]
  IN IF dbr = "error" THEN Outcome([status |-> 500] @@ base, NoChange)
     ELSE IF mr = "reject" THEN Outcome([status |-> 500] @@ base, [applications |-> apps2])
     ELSE Outcome([status |-> 201] @@ base,
                  [applications |-> apps2, outbox |-> Append(outbox, FilingMail)])

\* ------------------------------------------------------ payment initiator
\* An amount as entered: the list of the characters of String(amount).
Digits == {"0", "1", "2", "3", "4", "5", "6", "7", "8", "9"}
DigitValue(c) ==
  CASE c = "0" -> 0 [] c = "1" -> 1 [] c = "2" -> 2 [] c = "3" -> 3 [] c = "4" -> 4
    [] c = "5" -> 5 [] c = "6" -> 6 [] c = "7" -> 7 [] c = "8" -> 8 [] c = "9" -> 9
Amounts ==
  {<<"N", "1", "2", ",", "5", "0", "0">>, <<"2", "0">>, <<"1", ".", "5">>,
   <<"f", "r", "e", "e">>}

\* String(amount).replace(/\D/g, '')
RECURSIVE stripNonDigits(_)
stripNonDigits(text) ==
  IF text = <<>> THEN <<>>
  ELSE IF Head(text) \in Digits THEN <<Head(text)>> \o stripNonDigits(Tail(text))
  ELSE stripNonDigits(Tail(text))

\* parseInt(digits): NaN for the empty string.
RECURSIVE digitsValue(_)
digitsValue(digits) ==
  IF digits = <<>> THEN 0
  ELSE 10 * digitsValue(SubSeq(digits, 1, Len(digits) - 1)) + DigitValue(digits[Len(digits)])
parseInt(digits) ==
  IF digits = <<>> THEN NoAmount ELSE [nan |-> FALSE, val |-> digitsValue(digits)]

\* parseInt(..) * 100
amountInKobo(amount) ==
  LET n == parseInt(stripNonDigits(amount)) IN
  IF n.nan THEN NoAmount ELSE [nan |-> FALSE, val |-> n.val * 100]

GatewayResults == {"ok", "fail"}

\* POST /api/payments/initialize (src/server.js, part_001, part_003): one
\* axios.post to the gateway inside try/catch; NaN is sent as null, which the
\* gateway refuses.
\* A catch block that relays the gateway's own error to the client.
InitializeCatchRelays(base) == Outcome([status |-> 502, leak |-> TRUE] @@ base, NoChange)

\* `catch (err) { res.status(500).json({ error: "Payment node offline" }); }`
InitializeCatch(base) == Outcome([status |-> 500] @@ base, NoChange)

PaymentsInitialize(amount, gr) ==
  LET kobo == amountInKobo(amount)
      failed == gr = "fail" \/ kobo.nan
      base == [route |-> "POST /api/payments/initialize", handler |-> TRUE,
               amount |-> amount, sent |-> kobo, gatewayCalls |-> 1,
               gateway |-> IF failed THEN "fail" ELSE "ok"]
  IN IF failed THEN InitializeCatch(base)
     ELSE Outcome([status |-> 200] @@ base, NoChange)

\* ---------------------------------------- src/unnamed/part_003: tracking
Queries == ApplicantEmails \cup Refs \cup {"unknown"}
TrackResults == {"ok", "error", "throw"}

\* .or(`email.eq.${query},payment_ref.eq.${query}`)
TrackMatches(query) ==
  {id \in RowIds :
     /\ applications[id].exists
     /\ (applications[id].email = query \/ applications[id].payment_ref = query)}

\* GET /api/track: .single() returns an error unless exactly one row matches.
Part003_Track(query, tr) ==
  LET base == [route |-> "GET /api/track", handler |-> TRUE, query |-> query, lookup |-> tr]
      rows == TrackMatches(query)
  IN IF tr = "throw" THEN Outcome([status |-> 500] @@ base, NoChange)
     ELSE IF tr = "error" \/ Cardinality(rows) # 1
     THEN Outcome([status |-> 404] @@ base, NoChange)
     ELSE Outcome([status |-> 200, found |-> CHOOSE id \in rows : TRUE] @@ base, NoChange)

\* ------------------------------------- src/unnamed/part_001: payment webhook
Secret == "PAYSTACK_SECRET_KEY"
Keys == {Secret, "forged"}
Events == {"charge.success", "charge.failed"}

\* The request body as received: its JSON value and whether the text carries
\* whitespace that JSON.stringify would not emit.
RawBodies ==
  [event : Events, email : ApplicantEmails, ref : Refs, spaced : BOOLEAN]

\* express.json(): the parsed value forgets the layout of the text.
Parse(raw) == [event |-> raw.event, email |-> raw.email, ref |-> raw.ref]
\* JSON.stringify(req.body): the compact text of the value.
Stringify(body) ==
  [event |-> body.event, email |-> body.email, ref |-> body.ref, spaced |-> FALSE]

\* crypto.createHmac('sha512', key).update(text).digest('hex'), collision free.
Hmac(key, text) == [key |-> key, msg |-> text]

\* A signature test that lets a request without the header through.
SignatureRejectedIfPresent(hash, sig) == sig # <<>> /\ <<hash>> # sig

\* `if (hash !== req.headers['x-paystack-signature']) return res.sendStatus(401)`;
\* the header is <<>> when absent.
SignatureRejected(hash, sig) == <<hash>> # sig

\* An event test that acts on every event type.
IsAnyEvent(event) == TRUE

\* `if (event.event === 'charge.success')`
IsChargeSuccess(event) == event.event = "charge.success"

PaymentMail(email, ref) == [to |-> email, kind |-> "payment_verified", ref |-> ref]

Part001_Webhook(raw, sig, mr, uh) ==
  LET event == Parse(raw)
      hash == Hmac(Secret, Stringify(event))
      base == [route |-> "POST /api/payments/webhook", handler |-> TRUE,
               raw |-> raw, sig |-> sig]
  IN IF SignatureRejected(hash, sig) THEN Outcome([status |-> 401] @@ base, NoChange)
     ELSE IF IsChargeSuccess(event)
     THEN IF mr = "reject"
          THEN Outcome([status |-> uh] @@ base, NoChange)
          ELSE Outcome([status |-> 200] @@ base,
                       [outbox |-> Append(outbox, PaymentMail(event.email, event.ref))])
     ELSE Outcome([status |-> 200] @@ base, NoChange)

\* Signature headers a sender may attach to `raw`.
OtherRef(ref) == CHOOSE r \in Refs : r # ref
SigChoices(raw) ==
  {<<>>, <<Hmac(Secret, raw)>>, <<Hmac(Secret, Stringify(Parse(raw)))>>,
   <<Hmac("forged", raw)>>, <<Hmac(Secret, [raw EXCEPT !.ref = OtherRef(raw.ref)])>>}

\* -------------------------- blog iterations: part_000, part_001, part_002
\* file.originalname.replace(/[^a-zA-Z0-9.]/g, '_')
SafeChars == {"a", "b", "p", "."}
cleanName(name) == [i \in DOMAIN name |-> IF name[i] \in SafeChars THEN name[i] ELSE "_"]

\* file.originalname.split('.').pop()
RECURSIVE fileExt(_)
fileExt(name) ==
  IF name = <<>> THEN <<>>
  ELSE IF name[Len(name)] = "." THEN <<>>
  ELSE Append(fileExt(SubSeq(name, 1, Len(name) - 1)), name[Len(name)])

\* uploadToSupabase of part_000 and part_002: `${Date.now()}_${cleanName}`
UploadKeyClean(file) == ObjectKey("uploads", "", clock, cleanName(file))
\* uploadToSupabase of part_001: `${Date.now()}.${fileExt}`
UploadKeyExt(file) == ObjectKey("uploads", "", clock, fileExt(file))

\* POST /api/posts and POST /api/slides: optional upload, then insert, inside
\* try/catch that answers 500 with err.message.
PostWithMedia(route, auth, hdr, af, tbl, key, file, v, sr, dbr, okStatus) ==
  LET base == [route |-> route, authHeader |-> hdr, authFault |-> af,
               guarded |-> auth # NoGuard, handler |-> TRUE, user |-> auth.user,
               key |-> IF file # NoFile THEN key ELSE NoKey]
      st2 == IF file # NoFile THEN storage \cup {key} ELSE storage
  IN IF ~auth.next THEN Denied(route, hdr, af, auth)
     ELSE IF file # NoFile /\ UploadFails(key, sr)
     THEN Outcome([status |-> 500, leak |-> TRUE] @@ base, NoChange)
     ELSE IF dbr = "error"
     THEN Outcome([status |-> 500, leak |-> TRUE] @@ base, [storage |-> st2])
     ELSE Outcome([status |-> okStatus] @@ base,
                  [storage |-> st2, db |-> InsertRow(tbl, v)])

\* delete / update with `if (error) return res.status(500).json({ error: error.message })`
PlainMutation(route, auth, hdr, af, dbr, newdb) ==
  LET base == [route |-> route, authHeader |-> hdr, authFault |-> af,
               guarded |-> auth # NoGuard, handler |-> TRUE, user |-> auth.user]
  IN IF ~auth.next THEN Denied(route, hdr, af, auth)
     ELSE IF dbr = "error" THEN Outcome([status |-> 500, leak |-> TRUE] @@ base, NoChange)
     ELSE Outcome([status |-> 200] @@ base, [db |-> newdb])

\* src/unnamed/part_000: the blog routes behind verifyAdmin.
Part000_PostPosts(hdr, af, file, v, sr, dbr) ==
  PostWithMedia("POST /api/posts", verifyAdmin(hdr, af), hdr, af, "posts",
                UploadKeyClean(file), file, v, sr, dbr, 200)
Part000_DeletePost(hdr, af, id, dbr) ==
  PlainMutation("DELETE /api/posts/:id", verifyAdmin(hdr, af), hdr, af, dbr,
                DeleteRow("posts", id))
Part000_PostSlides(hdr, af, file, v, sr, dbr) ==
  PostWithMedia("POST /api/slides", verifyAdmin(hdr, af), hdr, af, "slides",
                UploadKeyClean(file), file, v, sr, dbr, 200)
Part000_DeleteSlide(hdr, af, id, dbr) ==
  PlainMutation("DELETE /api/slides/:id", verifyAdmin(hdr, af), hdr, af, dbr,
                DeleteRow("slides", id))
Part000_PutService(hdr, af, id, v, dbr) ==
  PlainMutation("PUT /api/services/:id", verifyAdmin(hdr, af), hdr, af, dbr,
                UpdateRow("services", id, v))

\* src/unnamed/part_001: POST /api/posts answers 201; the storage key is built
\* from the extension alone.
Part001_PostPosts(hdr, af, file, v, sr, dbr) ==
  PostWithMedia("POST /api/posts", verifyAdmin(hdr, af), hdr, af, "posts",
                UploadKeyExt(file), file, v, sr, dbr, 201)
Part001_PutService(hdr, af, id, v, dbr) ==
  PlainMutation("PUT /api/services/:id", verifyAdmin(hdr, af), hdr, af, dbr,
                UpdateRow("services", id, v))

\* src/unnamed/part_002: the same routes registered without verifyAdmin.
Part002_PostPosts(hdr, file, v, sr, dbr) ==
  PostWithMedia("POST /api/posts", NoGuard, hdr, "none", "posts",
                UploadKeyClean(file), file, v, sr, dbr, 200)
Part002_DeletePost(hdr, id, dbr) ==
  PlainMutation("DELETE /api/posts/:id", NoGuard, hdr, "none", dbr, DeleteRow("posts", id))
Part002_PostSlides(hdr, file, v, sr, dbr) ==
  PostWithMedia("POST /api/slides", NoGuard, hdr, "none", "slides",
                UploadKeyClean(file), file, v, sr, dbr, 200)
Part002_DeleteSlide(hdr, id, dbr) ==
  PlainMutation("DELETE /api/slides/:id", NoGuard, hdr, "none", dbr, DeleteRow("slides", id))
Part002_PutService(hdr, id, v, dbr) ==
  PlainMutation("PUT /api/services/:id", NoGuard, hdr, "none", dbr,
                UpdateRow("services", id, v))

\* src/unnamed/part_003 GET /api/applications
Part003_GetApplications(hdr, af) ==
  LET route == "GET /api/applications"
      auth == verifyAdmin(hdr, af)
  IN IF ~auth.next THEN Denied(route, hdr, af, auth)
     ELSE Outcome([route |-> route, authHeader |-> hdr, authFault |-> af, guarded |-> TRUE,
                   handler |-> TRUE, user |-> auth.user, status |-> 200], NoChange)


\* ------------------------------------------------------ src/api/index.js.js
Sections == {"agent", "hero"}

\* POST /api/admin/upload: registered without verifyAdmin; the result of the
\* database sync is not looked at.
Api_Upload(hdr, section, file, v, sr, dbr) ==
  LET base == [route |-> "POST /api/admin/upload", authHeader |-> hdr, handler |-> TRUE]
      key == ObjectKey("rex-assets", section, clock, file)
      db2 == IF dbr = "error" THEN db
             ELSE IF section = "agent" THEN UpsertRow("agent_profile", 1, v)
             ELSE IF HasFree(db["slides"]) THEN InsertRow("slides", v)
             ELSE db
  IN IF file = NoFile THEN Outcome([status |-> 400] @@ base, NoChange)
     ELSE IF UploadFails(key, sr) THEN Outcome([status |-> 500, leak |-> TRUE, key |-> key] @@ base, NoChange)
     ELSE Outcome([status |-> 200, key |-> key] @@ base, [storage |-> storage \cup {key}, db |-> db2])

\* PUT /api/services/:id: `if (error) return res.status(400).json(error)`
Api_PutService(hdr, id, v, dbr) ==
  LET base == [route |-> "PUT /api/services/:id", authHeader |-> hdr, handler |-> TRUE]
  IN IF dbr = "error" THEN Outcome([status |-> 400, leak |-> TRUE] @@ base, NoChange)
     ELSE Outcome([status |-> 200] @@ base, [db |-> UpdateRow("services", id, v)])

\* DELETE /api/slides/:id: the result of the delete is not looked at.
Api_DeleteSlide(hdr, id, dbr) ==
  Outcome([route |-> "DELETE /api/slides/:id", authHeader |-> hdr, handler |-> TRUE,
           status |-> 200],
          [db |-> IF dbr = "error" THEN db ELSE DeleteRow("slides", id)])

\* ------------------------------------------------- cross-origin gate
\* An origin is the list of the pieces of its text; the last piece of a
\* Vercel deployment's origin is ".vercel.app".
Star == <<"*">>
Origins ==
  {<<"http://localhost:5173">>, <<"https://rex360solutions.com">>,
   <<"https://preview-rex360", ".vercel.app">>, <<"https://evil.example">>,
   <<"%%", ".vercel.app">>, <<"null">>}

\* origin.endsWith('.vercel.app') / /\.vercel\.app$/.test(origin)
EndsWithVercelApp(origin) == origin[Len(origin)] = ".vercel.app"

\* The string entries of allowedOrigins (src/server.js, part_001, part_003)
\* and of the origin array of src/api/index.js.js.
allowedOrigins(v) ==
  CASE v = "server" ->
         {<<"http://localhost:5173">>, <<"https://rex360frontend.vercel.app">>,
          <<"https://rex360-solutions.vercel.app">>, <<"https://rex360-solutions-1.vercel.app">>,
          <<"https://rex360-solutions-2.vercel.app">>, <<"https://rex360backend.vercel.app">>}
    [] v \in {"part_001", "part_003"} ->
         {<<"https://rex360solutions.com">>, <<"https://www.rex360solutions.com">>,
          <<"https://rex360-frontend.vercel.app">>, <<"http://localhost:3000">>,
          <<"http://localhost:5173">>}
    [] v = "api_index" -> {<<"https://rex360solutions.com">>, <<"http://localhost:5173">>}
    [] OTHER -> {}

\* An origin callback that admits every origin.
originCallbackAdmitsAll(v, origin) == TRUE

\* The `origin` callback of cors(..) in src/server.js, part_001 and part_003.
originCallback(v, origin) ==
  origin = NoOrigin \/ origin \in allowedOrigins(v) \/ EndsWithVercelApp(origin)

\* The cors middleware (and, in src/server.js, the header middleware after
\* it): whether next() is called without error, and the
\* Access-Control-Allow-Origin header left on the response.
\*  - an origin callback: an error for a refused origin, else the request's
\*    origin is reflected (src/server.js then overwrites the header with "*");
\*  - an origin array (api/index.js.js): the header is set for a listed origin
\*    only, and next() is called in every case;
\*  - origin "*" (part_000) and cors() (part_002): "*" and next().
corsGate(v, origin) ==
  CASE v \in {"server", "part_001", "part_003"} ->
         IF ~originCallback(v, origin) THEN [next |-> FALSE, acao |-> NoOrigin]
         ELSE [next |-> TRUE, acao |-> IF v = "server" THEN Star ELSE origin]
    [] v = "api_index" ->
         [next |-> TRUE, acao |-> IF origin \in allowedOrigins(v) THEN origin ELSE NoOrigin]
    [] OTHER -> [next |-> TRUE, acao |-> Star]

\* A public read behind the gate: GET /api/services (GET /api/slides in
\* api/index.js.js).  A request the gate refuses is answered by the
\* framework's error handler and reaches no route.
PublicRead(v, origin, dbr) ==
  LET gate == corsGate(v, origin)
      base == [route |-> IF v = "api_index" THEN "GET /api/slides" ELSE "GET /api/services",
               origin |-> origin, acao |-> gate.acao]
  IN IF ~gate.next THEN Outcome([status |-> 500] @@ base, NoChange)
     ELSE IF dbr = "error" /\ v = "part_001"
     THEN Outcome([status |-> 500, handler |-> TRUE, leak |-> TRUE] @@ base, NoChange)
     ELSE IF dbr = "error" /\ v = "part_003"
     THEN Outcome([status |-> 500, handler |-> TRUE] @@ base, NoChange)
     ELSE Outcome([status |-> 200, handler |-> TRUE] @@ base, NoChange)

\* ------------------------------------------------------ unmatched requests
\* A request whose method and path match no registered route.  part_001 ends
\* its route table with `app.use((req, res) => res.status(404).json(..))`; the
\* other iterations register nothing after their routes, so the framework's
\* final handler answers 404 with its HTML page ("Cannot GET /path").
Unmatched(v) ==
  LET base == [route |-> "unmatched", status |-> 404] IN
  IF v = "part_001" THEN Outcome([handler |-> TRUE] @@ base, NoChange)
  ELSE Outcome([html |-> TRUE] @@ base, NoChange)

\* ------------------------------------------------------------------- Init
SeededTable == [id \in RowIds |-> IF id = 1 THEN "x" ELSE NoRow]
SeededApp ==
  [exists |-> TRUE, email |-> "ada@mail.com", payment_ref |-> "ref1",
   status |-> "pending", is_express |-> FALSE]

Init ==
  /\ variant \in Variants
  /\ clock = 0
  /\ db = [t \in Tables |->
            IF t = "services" THEN [id \in RowIds |-> "x"]
            ELSE IF t = "agent_profile" THEN EmptyTable
            ELSE SeededTable]
  /\ applications = [id \in RowIds |-> IF id = 1 THEN SeededApp ELSE NoApp]
  /\ storage = {}
  /\ audit_logs = <<>>
  /\ outbox = <<>>
  /\ last = Blank
  /\ nreq = 0

\* Date.now() advances between requests.  Time enters the stored state only
\* through the keys of uploaded objects, so only the time elapsed since the
\* first upload is tracked.
Tick ==
  /\ storage # {}
  /\ clock < MaxClock
  /\ clock' = clock + 1
  /\ UNCHANGED <<variant, db, applications, storage, audit_logs, outbox, last, nreq>>

\* ------------------------------------------------------- request inputs
\* An input is drawn only where the handler reads it (a request that
\* verifyAdmin turns away never reaches the database, so its database outcome
\* is not drawn); elsewhere it takes a fixed value.
Rel(cond, S, dflt) == IF cond THEN S ELSE {dflt}

\* Authorization header and identity-service outcome of a request.  No lookup
\* is made without a header; a returned error is drawn only for the token that
\* would otherwise be admitted (any other token is turned away with the same
\* 403 either way); the lookup may throw for every token.
AuthInputs ==
  {a \in AuthHeaders \X AuthFaults :
     /\ a[1] = NoHeader => a[2] = "none"
     /\ a[2] = "error" => a[1] = <<"Bearer", "admin">>}
Admits(a) == verifyAdmin(a[1], a[2]).next
FileInputs == FileNames \cup {NoFile}

\* Iteration v is the one deployed, and the request bound is not used up.
Serving(v) == nreq < MaxReq /\ variant = v

\* ------------------------------------------------- actions of src/server.js
ServerPostSlides ==
  /\ Serving("server")
  /\ \E a \in AuthInputs :
     \E v \in Rel(Admits(a), Vals, "x"), dbr \in Rel(Admits(a), DbResults, "error") :
     \E lg \in Rel(Admits(a) /\ dbr = "ok", LogResults, "ok") :
     \E uh \in Rel(lg = "throw", Unhandled, 500) :
       /\ dbr = "ok" => HasFree(db["slides"])
       /\ Commit(Server_PostSlides(a[1], a[2], v, dbr, lg, uh))

ServerDeleteSlide ==
  /\ Serving("server")
  /\ \E a \in AuthInputs :
     \E id \in Rel(Admits(a), RowIds, 1), dbr \in Rel(Admits(a), DbResults, "error") :
     \E lg \in Rel(Admits(a) /\ dbr = "ok", LogResults, "ok") :
     \E uh \in Rel(lg = "throw", Unhandled, 500) :
       Commit(Server_DeleteSlide(a[1], a[2], id, dbr, lg, uh))

ServerPutAgentProfile ==
  /\ Serving("server")
  /\ \E a \in AuthInputs :
     \E v \in Rel(Admits(a), Vals, "x"), dbr \in Rel(Admits(a), DbResults, "error") :
     \E lg \in Rel(Admits(a) /\ dbr = "ok", LogResults, "ok") :
     \E uh \in Rel(lg = "throw", Unhandled, 500) :
       Commit(Server_PutAgentProfile(a[1], a[2], v, dbr, lg, uh))

ServerPutService ==
  /\ Serving("server")
  /\ \E a \in AuthInputs :
     \E id \in Rel(Admits(a), RowIds, 1), v \in Rel(Admits(a), Vals, "x"),
        dbr \in Rel(Admits(a), DbResults, "error") :
     \E lg \in Rel(Admits(a) /\ dbr = "ok", LogResults, "ok") :
     \E uh \in Rel(lg = "throw", Unhandled, 500) :
       Commit(Server_PutService(a[1], a[2], id, v, dbr, lg, uh))

ServerPostPosts ==
  /\ Serving("server")
  /\ \E a \in AuthInputs :
     \E v \in Rel(Admits(a), Vals, "x"), dbr \in Rel(Admits(a), DbResults, "error") :
     \E lg \in Rel(Admits(a) /\ dbr = "ok", LogResults, "ok") :
     \E uh \in Rel(lg = "throw", Unhandled, 500) :
       /\ dbr = "ok" => HasFree(db["posts"])
       /\ Commit(Server_PostPosts(a[1], a[2], v, dbr, lg, uh))

ServerPutPost ==
  /\ Serving("server")
  /\ \E a \in AuthInputs :
     \E id \in Rel(Admits(a), RowIds, 1), v \in Rel(Admits(a), Vals, "x"),
        dbr \in Rel(Admits(a), DbResults, "error") :
     \E lg \in Rel(Admits(a) /\ dbr = "ok", LogResults, "ok") :
     \E uh \in Rel(lg = "throw", Unhandled, 500) :
       Commit(Server_PutPost(a[1], a[2], id, v, dbr, lg, uh))

ServerDeletePost ==
  /\ Serving("server")
  /\ \E a \in AuthInputs :
     \E id \in Rel(Admits(a), RowIds, 1), dbr \in Rel(Admits(a), DbResults, "error") :
     \E lg \in Rel(Admits(a) /\ dbr = "ok", LogResults, "ok") :
     \E uh \in Rel(lg = "throw", Unhandled, 500) :
       Commit(Server_DeletePost(a[1], a[2], id, dbr, lg, uh))

ServerPostContent ==
  /\ Serving("server")
  /\ \E a \in AuthInputs :
     \E v \in Rel(Admits(a), Vals, "x"), dbr \in Rel(Admits(a), DbResults, "error") :
     \E lg \in Rel(Admits(a) /\ dbr = "ok", LogResults, "ok") :
     \E uh \in Rel(lg = "throw", Unhandled, 500) :
       /\ dbr = "ok" => HasFree(db["content_assets"])
       /\ Commit(Server_PostContent(a[1], a[2], v, dbr, lg, uh))

ServerDeleteContent ==
  /\ Serving("server")
  /\ \E a \in AuthInputs :
     \E id \in Rel(Admits(a), RowIds, 1), dbr \in Rel(Admits(a), DbResults, "error") :
     \E lg \in Rel(Admits(a) /\ dbr = "ok", LogResults, "ok") :
     \E uh \in Rel(lg = "throw", Unhandled, 500) :
       Commit(Server_DeleteContent(a[1], a[2], id, dbr, lg, uh))

ServerPutExpress ==
  /\ Serving("server")
  /\ \E a \in AuthInputs :
     \E id \in Rel(Admits(a), RowIds, 1), isExpress \in Rel(Admits(a), BOOLEAN, FALSE),
        dbr \in Rel(Admits(a), DbResults, "error") :
     \E lg \in Rel(Admits(a) /\ dbr = "ok", LogResults, "ok") :
     \E uh \in Rel(lg = "throw", Unhandled, 500) :
       Commit(Server_PutExpress(a[1], a[2], id, isExpress, dbr, lg, uh))

ServerPutStatus ==
  /\ Serving("server")
  /\ \E a \in AuthInputs :
     \E id \in Rel(Admits(a), RowIds, 1), status \in Rel(Admits(a), Statuses, "pending"),
        email \in Rel(Admits(a), ApplicantEmails, "ada@mail.com"),
        dbr \in Rel(Admits(a), DbResults, "ok") :
     \E mr \in Rel(Admits(a) /\ status = "completed", MailResults, "ok") :
     \E lg \in Rel(Admits(a) /\ mr = "ok", LogResults, "ok") :
     \E uh \in Rel(Admits(a), Unhandled, 500) :
       Commit(Server_PutStatus(a[1], a[2], id, status, email, dbr, mr, lg, uh))

ServerUpload ==
  /\ Serving("server")
  /\ \E a \in AuthInputs :
     \E file \in Rel(Admits(a), FileInputs, NoFile) :
     \E sr \in Rel(file # NoFile, StorageResults, "ok") :
       Commit(Server_Upload(a[1], a[2], file, sr))

ServerAdminGet ==
  /\ Serving("server")
  /\ \E route \in {"GET /api/applications", "GET /api/logs", "GET /api/content"},
        a \in AuthInputs :
       Commit(Server_AdminGet(route, a[1], a[2]))

\* ------------------------------------------- actions of src/unnamed/part_003
Part003PutService ==
  /\ Serving("part_003")
  /\ \E a \in AuthInputs :
     \E id \in Rel(Admits(a), RowIds, 1), v \in Rel(Admits(a), Vals, "x"),
        dbr \in Rel(Admits(a), DbResults, "error") :
     \E lg \in Rel(Admits(a) /\ dbr = "ok", LogResults, "ok") :
       Commit(Part003_PutService(a[1], a[2], id, v, dbr, lg))

Part003PostApplication ==
  /\ Serving("part_003")
  /\ \E hdr \in AuthHeaders, email \in ApplicantEmails, ref \in Refs, status \in Statuses,
        dbr \in DbResults :
     \E mr \in Rel(dbr = "ok", MailResults, "ok") :
       /\ dbr = "ok" => AppFreeIds # {}
       /\ Commit(Part003_PostApplication(hdr,
                    [exists |-> TRUE, email |-> email, payment_ref |-> ref,
                     status |-> status, is_express |-> FALSE], dbr, mr))

Part003PutStatus ==
  /\ Serving("part_003")
  /\ \E a \in AuthInputs :
     \E id \in Rel(Admits(a), RowIds, 1), status \in Rel(Admits(a), Statuses, "pending"),
        email \in Rel(Admits(a), ApplicantEmails, "ada@mail.com"),
        dbr \in Rel(Admits(a), DbResults, "ok") :
     \E mr \in Rel(Admits(a) /\ dbr = "ok" /\ status = "completed", MailResults, "ok") :
     \E lg \in Rel(Admits(a) /\ dbr = "ok" /\ mr = "ok", LogResults, "ok") :
       Commit(Part003_PutStatus(a[1], a[2], id, status, email, dbr, mr, lg))

Part003Upload ==
  /\ Serving("part_003")
  /\ \E a \in AuthInputs :
     \E file \in Rel(Admits(a), FileInputs, NoFile) :
     \E sr \in Rel(file # NoFile, StorageResults, "ok") :
       Commit(Part003_Upload(a[1], a[2], file, sr))

Part003GetApplications ==
  /\ Serving("part_003")
  /\ \E a \in AuthInputs : Commit(Part003_GetApplications(a[1], a[2]))

Part003Track ==
  /\ Serving("part_003")
  /\ \E query \in Queries, tr \in TrackResults : Commit(Part003_Track(query, tr))

UnmatchedRequest ==
  /\ nreq < MaxReq
  /\ Commit(Unmatched(variant))

\* A public read, possibly from a browser page of some origin.
PublicReadRequest ==
  /\ nreq < MaxReq
  /\ \E origin \in Origins \cup {NoOrigin}, dbr \in DbResults :
       Commit(PublicRead(variant, origin, dbr))

\* POST /api/payments/initialize of src/server.js, part_001 and part_003.
PaymentsInitializeRequest ==
  /\ nreq < MaxReq
  /\ variant \in {"server", "part_001", "part_003"}
  /\ \E amount \in Amounts, gr \in GatewayResults : Commit(PaymentsInitialize(amount, gr))

\* ------------------------------------------- actions of src/unnamed/part_001
Part001Webhook ==
  /\ Serving("part_001")
  /\ \E raw \in RawBodies :
     \E sig \in SigChoices(raw), mr \in Rel(raw.event = "charge.success", MailResults, "ok") :
     \E uh \in Rel(mr = "reject", Unhandled, 500) :
       Commit(Part001_Webhook(raw, sig, mr, uh))

Part001PostPosts ==
  /\ Serving("part_001")
  /\ \E a \in AuthInputs :
     \E file \in Rel(Admits(a), FileInputs, NoFile), v \in Rel(Admits(a), Vals, "x"),
        dbr \in Rel(Admits(a), DbResults, "error") :
     \E sr \in Rel(file # NoFile, StorageResults, "ok") :
       /\ dbr = "ok" => HasFree(db["posts"])
       /\ Commit(Part001_PostPosts(a[1], a[2], file, v, sr, dbr))

Part001PutService ==
  /\ Serving("part_001")
  /\ \E a \in AuthInputs :
     \E id \in Rel(Admits(a), RowIds, 1), v \in Rel(Admits(a), Vals, "x"),
        dbr \in Rel(Admits(a), DbResults, "error") :
       Commit(Part001_PutService(a[1], a[2], id, v, dbr))

\* ------------------------------------------- actions of src/unnamed/part_000
Part000PostPosts ==
  /\ Serving("part_000")
  /\ \E a \in AuthInputs :
     \E file \in Rel(Admits(a), FileInputs, NoFile), v \in Rel(Admits(a), Vals, "x"),
        dbr \in Rel(Admits(a), DbResults, "error") :
     \E sr \in Rel(file # NoFile, StorageResults, "ok") :
       /\ dbr = "ok" => HasFree(db["posts"])
       /\ Commit(Part000_PostPosts(a[1], a[2], file, v, sr, dbr))

Part000DeletePost ==
  /\ Serving("part_000")
  /\ \E a \in AuthInputs :
     \E id \in Rel(Admits(a), RowIds, 1), dbr \in Rel(Admits(a), DbResults, "error") :
       Commit(Part000_DeletePost(a[1], a[2], id, dbr))

Part000PostSlides ==
  /\ Serving("part_000")
  /\ \E a \in AuthInputs :
     \E file \in Rel(Admits(a), FileInputs, NoFile), v \in Rel(Admits(a), Vals, "x"),
        dbr \in Rel(Admits(a), DbResults, "error") :
     \E sr \in Rel(file # NoFile, StorageResults, "ok") :
       /\ dbr = "ok" => HasFree(db["slides"])
       /\ Commit(Part000_PostSlides(a[1], a[2], file, v, sr, dbr))

Part000DeleteSlide ==
  /\ Serving("part_000")
  /\ \E a \in AuthInputs :
     \E id \in Rel(Admits(a), RowIds, 1), dbr \in Rel(Admits(a), DbResults, "error") :
       Commit(Part000_DeleteSlide(a[1], a[2], id, dbr))

Part000PutService ==
  /\ Serving("part_000")
  /\ \E a \in AuthInputs :
     \E id \in Rel(Admits(a), RowIds, 1), v \in Rel(Admits(a), Vals, "x"),
        dbr \in Rel(Admits(a), DbResults, "error") :
       Commit(Part000_PutService(a[1], a[2], id, v, dbr))

\* ------------------------------------------- actions of src/unnamed/part_002
Part002PostPosts ==
  /\ Serving("part_002")
  /\ \E hdr \in AuthHeaders, file \in FileInputs, v \in Vals, dbr \in DbResults :
     \E sr \in Rel(file # NoFile, StorageResults, "ok") :
       /\ dbr = "ok" => HasFree(db["posts"])
       /\ Commit(Part002_PostPosts(hdr, file, v, sr, dbr))

Part002DeletePost ==
  /\ Serving("part_002")
  /\ \E hdr \in AuthHeaders, id \in RowIds, dbr \in DbResults :
       Commit(Part002_DeletePost(hdr, id, dbr))

Part002PostSlides ==
  /\ Serving("part_002")
  /\ \E hdr \in AuthHeaders, file \in FileInputs, v \in Vals, dbr \in DbResults :
     \E sr \in Rel(file # NoFile, StorageResults, "ok") :
       /\ dbr = "ok" => HasFree(db["slides"])
       /\ Commit(Part002_PostSlides(hdr, file, v, sr, dbr))

Part002DeleteSlide ==
  /\ Serving("part_002")
  /\ \E hdr \in AuthHeaders, id \in RowIds, dbr \in DbResults :
       Commit(Part002_DeleteSlide(hdr, id, dbr))

Part002PutService ==
  /\ Serving("part_002")
  /\ \E hdr \in AuthHeaders, id \in RowIds, v \in Vals, dbr \in DbResults :
       Commit(Part002_PutService(hdr, id, v, dbr))

\* ------------------------------------------- actions of src/api/index.js.js
ApiUpload ==
  /\ Serving("api_index")
  /\ \E hdr \in AuthHeaders, file \in FileInputs :
     \E section \in Rel(file # NoFile, Sections, "hero"), v \in Rel(file # NoFile, Vals, "x"),
        sr \in Rel(file # NoFile, StorageResults, "ok"),
        dbr \in Rel(file # NoFile, DbResults, "ok") :
       Commit(Api_Upload(hdr, section, file, v, sr, dbr))

ApiPutService ==
  /\ Serving("api_index")
  /\ \E hdr \in AuthHeaders, id \in RowIds, v \in Vals, dbr \in DbResults :
       Commit(Api_PutService(hdr, id, v, dbr))

ApiDeleteSlide ==
  /\ Serving("api_index")
  /\ \E hdr \in AuthHeaders, id \in RowIds, dbr \in DbResults :
       Commit(Api_DeleteSlide(hdr, id, dbr))

\* ------------------------------------------------------------------- Next
Next ==
  \/ Tick
  \/ ServerPostSlides \/ ServerDeleteSlide \/ ServerPutAgentProfile \/ ServerPutService
  \/ ServerPostPosts \/ ServerPutPost \/ ServerDeletePost
  \/ ServerPostContent \/ ServerDeleteContent
  \/ ServerPutExpress \/ ServerPutStatus \/ ServerUpload \/ ServerAdminGet
  \/ Part003PutService \/ Part003PostApplication \/ Part003PutStatus
  \/ Part003Upload \/ Part003GetApplications \/ Part003Track
  \/ PaymentsInitializeRequest \/ PublicReadRequest \/ UnmatchedRequest
  \/ Part001Webhook \/ Part001PostPosts \/ Part001PutService
  \/ Part000PostPosts \/ Part000DeletePost \/ Part000PostSlides \/ Part000DeleteSlide
  \/ Part000PutService
  \/ Part002PostPosts \/ Part002DeletePost \/ Part002PostSlides \/ Part002DeleteSlide
  \/ Part002PutService
  \/ ApiUpload \/ ApiPutService \/ ApiDeleteSlide

Spec == Init /\ [][Next]_vars

\* ================================================================ claims
WebhookRoute == "POST /api/payments/webhook"
StatusRoute == "PUT /api/applications/:id/status"
ExpressRoute == "PUT /api/applications/:id/express"

\* The step handled one request of the given route.
Handled(route) == nreq' = nreq + 1 /\ last'.route = route
RecordsUnchanged ==
  /\ db' = db /\ applications' = applications
  /\ storage' = storage /\ audit_logs' = audit_logs
NoMailSent == outbox' = outbox

\* The digest the webhook handler computes for the request `r` it answered.
ComputedDigest(r) == Hmac(Secret, Stringify(Parse(r.raw)))
PaymentMails(email, ref) ==
  {i \in DOMAIN outbox :
     outbox[i].kind = "payment_verified" /\ outbox[i].to = email /\ outbox[i].ref = ref}

\* C1: a webhook request whose x-paystack-signature header (absent or not)
\* differs from the digest the handler computes is answered 401, and the step
\* sends no email and changes no stored record.
C1_UnverifiedWebhookHasNoEffect ==
  [][(Handled(WebhookRoute) /\ <<ComputedDigest(last')>> # last'.sig)
       => (last'.status = 401 /\ NoMailSent /\ RecordsUnchanged)]_vars

\* C1 witness: a charge.success event carrying a forged signature was turned
\* away with 401 and nothing was sent.
C1_Witness ==
  /\ last.route = WebhookRoute
  /\ last.raw.event = "charge.success"
  /\ last.sig = <<Hmac("forged", last.raw)>>
  /\ last.status = 401
  /\ outbox = <<>>

\* C3 (as claimed): for every charge.success event (customer, transaction
\* reference), at most one confirmation email is ever sent, however often the
\* verified event is delivered.
C3_AtMostOneConfirmationPerReference ==
  \A email \in ApplicantEmails, ref \in Refs : Cardinality(PaymentMails(email, ref)) <= 1

\* C4 (as claimed): every webhook request that passes the signature check is
\* answered 200, also when sending the confirmation email fails.
C4_VerifiedWebhookAnswered200 ==
  (last.route = WebhookRoute /\ <<ComputedDigest(last)>> = last.sig) => last.status = 200

\* C5: a verified webhook event whose type is not charge.success is answered
\* 200 and causes no email and no change of stored records; a webhook step
\* that sends an email handled a verified charge.success event.
C5_OnlyChargeSuccessActs ==
  [][Handled(WebhookRoute) =>
       /\ (<<ComputedDigest(last')>> = last'.sig /\ last'.raw.event # "charge.success")
            => (last'.status = 200 /\ NoMailSent /\ RecordsUnchanged)
       /\ ~NoMailSent
            => (<<ComputedDigest(last')>> = last'.sig /\ last'.raw.event = "charge.success")]_vars

\* C5 witness: a verified charge.failed event was answered 200 and left the
\* outbox empty.
C5_Witness ==
  /\ last.route = WebhookRoute
  /\ last.raw.event = "charge.failed"
  /\ last.sig = <<ComputedDigest(last)>>
  /\ last.status = 200
  /\ outbox = <<>>

\* The routes the interface marks as admin-only.
AdminRoutes ==
  {"POST /api/posts", "PUT /api/posts/:id", "DELETE /api/posts/:id",
   "POST /api/slides", "DELETE /api/slides/:id", "PUT /api/services/:id",
   "POST /api/content", "DELETE /api/content/:id", "GET /api/content",
   "PUT /api/agent-profile", "GET /api/applications", StatusRoute, ExpressRoute,
   "POST /api/admin/upload", "GET /api/logs"}

\* The request `r` carried a token that the identity service resolved to the
\* allow-listed administrator.
ResolvesToAdmin(r) ==
  /\ r.authHeader # NoHeader
  /\ getUser(SplitToken(r.authHeader), r.authFault).user = AdminEmail

\* C2 (as claimed): on every admin-marked route a request whose token resolves
\* to the administrator is let through, and a request with any other token
\* (or none) is answered 401 or 403 and changes no stored record or object.
C2_AdminRoutesRequireAdmin ==
  [][(nreq' = nreq + 1 /\ last'.route \in AdminRoutes) =>
       /\ ResolvesToAdmin(last') => (last'.handler /\ last'.status \notin {401, 403})
       /\ ~ResolvesToAdmin(last') => (last'.status \in {401, 403} /\ RecordsUnchanged)]_vars

\* C6 (as claimed): verifyAdmin answers 401 exactly when the request carries
\* no token (no header, or a header with nothing after the scheme), answers
\* 403 when a token is present but is not the administrator's, never runs the
\* handler in either case, and attaches the resolved identity on success.
TokenPresent(r) == Len(r.authHeader) >= 2
C6_AuthenticatorStatusCodes ==
  last.guarded =>
    /\ (last.status = 401) <=> ~TokenPresent(last)
    /\ ~TokenPresent(last) => ~last.handler
    /\ (TokenPresent(last) /\ SplitToken(last.authHeader) # "admin")
         => (last.status = 403 /\ ~last.handler)
    /\ last.handler => last.user = AdminEmail

\* The audit records the step appended.
Appended == SubSeq(audit_logs', Len(audit_logs) + 1, Len(audit_logs'))
Sent == SubSeq(outbox', Len(outbox) + 1, Len(outbox'))

\* C7 (as claimed): every authorized status request that sets "completed"
\* sends exactly one email, to the address the request names as the
\* applicant's, and appends exactly one audit record naming the acting
\* administrator; a request that sets another status sends no email.
C7_CompletedSendsOneMailAndOneLog ==
  [][(Handled(StatusRoute) /\ last'.handler) =>
       IF last'.newStatus = "completed"
       THEN /\ Sent = <<CompletionMail(last'.email)>>
            /\ Len(Appended) = 1
            /\ Appended[1].admin_email = last'.user
       ELSE Sent = <<>>]_vars

\* C8: the status of an existing application changes only in a step that
\* handled an administrator's status update or a webhook, and no step deletes
\* an application.
C8_StatusChangesOnlyByAdminOrWebhook ==
  [][\A id \in RowIds :
       applications[id].exists =>
         /\ applications'[id].exists
         /\ applications'[id].status # applications[id].status =>
              \/ Handled(StatusRoute) /\ last'.handler /\ last'.user = AdminEmail
              \/ Handled(WebhookRoute)]_vars

\* C8 witness: the administrator completed application 1, and a later express
\* toggle changed its is_express flag and left the status alone.
C8_Witness ==
  /\ applications[1].exists
  /\ applications[1].status = "completed"
  /\ applications[1].is_express
  /\ last.route = ExpressRoute
  /\ last.status = 200

\* Two outcomes of one handler that differ at most in the audit log, the
\* second having appended nothing.
SameButLog(ok, failed) ==
  /\ failed.resp.status = ok.resp.status
  /\ failed.db = ok.db
  /\ failed.applications = ok.applications
  /\ failed.storage = ok.storage
  /\ failed.outbox = ok.outbox
  /\ failed.audit_logs = audit_logs

Admitted == {a \in AuthInputs : Admits(a)}
LogFailures == {"error", "throw"}

\* C9: wherever the server can take a request, for every admin mutation that
\* calls the audit logger and every way the append can fail (a returned error,
\* a thrown error), the handler leaves the same stored records and answers
\* with the same status as when the append succeeds; only the audit record is
\* missing.
C9_LogFailureChangesNothingElse ==
  nreq < MaxReq =>
  \A a \in Admitted, lg \in LogFailures :
    /\ variant = "server" =>
         /\ \A v \in Vals :
              /\ HasFree(db["slides"]) =>
                   SameButLog(Server_PostSlides(a[1], a[2], v, "ok", "ok", NoResponse),
                              Server_PostSlides(a[1], a[2], v, "ok", lg, NoResponse))
              /\ HasFree(db["posts"]) =>
                   SameButLog(Server_PostPosts(a[1], a[2], v, "ok", "ok", NoResponse),
                              Server_PostPosts(a[1], a[2], v, "ok", lg, NoResponse))
              /\ HasFree(db["content_assets"]) =>
                   SameButLog(Server_PostContent(a[1], a[2], v, "ok", "ok", NoResponse),
                              Server_PostContent(a[1], a[2], v, "ok", lg, NoResponse))
              /\ SameButLog(Server_PutAgentProfile(a[1], a[2], v, "ok", "ok", NoResponse),
                            Server_PutAgentProfile(a[1], a[2], v, "ok", lg, NoResponse))
         /\ \A id \in RowIds :
              /\ SameButLog(Server_DeleteSlide(a[1], a[2], id, "ok", "ok", NoResponse),
                            Server_DeleteSlide(a[1], a[2], id, "ok", lg, NoResponse))
              /\ SameButLog(Server_DeletePost(a[1], a[2], id, "ok", "ok", NoResponse),
                            Server_DeletePost(a[1], a[2], id, "ok", lg, NoResponse))
              /\ SameButLog(Server_DeleteContent(a[1], a[2], id, "ok", "ok", NoResponse),
                            Server_DeleteContent(a[1], a[2], id, "ok", lg, NoResponse))
         /\ \A id \in RowIds, v \in Vals :
              /\ SameButLog(Server_PutService(a[1], a[2], id, v, "ok", "ok", NoResponse),
                            Server_PutService(a[1], a[2], id, v, "ok", lg, NoResponse))
              /\ SameButLog(Server_PutPost(a[1], a[2], id, v, "ok", "ok", NoResponse),
                            Server_PutPost(a[1], a[2], id, v, "ok", lg, NoResponse))
         /\ \A id \in RowIds, isExpress \in BOOLEAN :
              SameButLog(Server_PutExpress(a[1], a[2], id, isExpress, "ok", "ok", NoResponse),
                         Server_PutExpress(a[1], a[2], id, isExpress, "ok", lg, NoResponse))
         /\ \A id \in RowIds, status \in Statuses, email \in ApplicantEmails,
               dbr \in DbResults :
              SameButLog(
                Server_PutStatus(a[1], a[2], id, status, email, dbr, "ok", "ok", NoResponse),
                Server_PutStatus(a[1], a[2], id, status, email, dbr, "ok", lg, NoResponse))
    /\ variant = "part_003" =>
         /\ \A id \in RowIds, v \in Vals :
              SameButLog(Part003_PutService(a[1], a[2], id, v, "ok", "ok"),
                         Part003_PutService(a[1], a[2], id, v, "ok", lg))
         /\ \A id \in RowIds, status \in Statuses, email \in ApplicantEmails :
              SameButLog(
                Part003_PutStatus(a[1], a[2], id, status, email, "ok", "ok", "ok"),
                Part003_PutStatus(a[1], a[2], id, status, email, "ok", "ok", lg))

\* C9 witness: a slide was deleted and the request answered 200 although the
\* audit logger, called once, appended nothing.
C9_Witness ==
  /\ last.route = "DELETE /api/slides/:id"
  /\ last.guarded
  /\ last.logCalls = 1
  /\ last.status = 200
  /\ audit_logs = <<>>
  /\ db["slides"][1] = NoRow

\* C10 (as claimed): every step in which an admitted administrator's request
\* changed a stored record or object and was answered with a success status
\* called the audit logger once.
C10_PrivilegedMutationIsLogged ==
  [][(/\ nreq' = nreq + 1
      /\ last'.guarded /\ last'.handler
      /\ last'.status \in {200, 201}
      /\ (db' # db \/ applications' # applications \/ storage' # storage))
       => last'.logCalls = 1]_vars

InitializeRoute == "POST /api/payments/initialize"

\* The digits of an amount text, in order, and their base-10 reading.
DigitsOf(text) == SelectSeq(text, LAMBDA c : c \in Digits)
RECURSIVE Base10(_)
Base10(ds) == IF ds = <<>> THEN 0 ELSE DigitValue(Head(ds)) * (10 ^ (Len(ds) - 1)) + Base10(Tail(ds))

\* C11 (as claimed): for every amount input, the value the initializer sends
\* to the gateway is a non-negative integer, namely 100 times the base-10
\* reading of the input's digits with every other character deleted.
C11_AmountSentIsDigitsTimes100 ==
  (last.route = InitializeRoute /\ last.gatewayCalls = 1) =>
    /\ ~last.sent.nan
    /\ last.sent.val >= 0
    /\ last.sent.val = 100 * Base10(DigitsOf(last.amount))

\* C12: when the initialize call to the gateway fails, the request is answered
\* 500 with the fixed error body (nothing of the gateway's answer in it), the
\* gateway having been called once and nothing stored having changed.
C12_GatewayFailureIsOpaque500 ==
  [][(Handled(InitializeRoute) /\ last'.gateway = "fail") =>
       /\ last'.status = 500
       /\ ~last'.leak
       /\ last'.gatewayCalls <= 1
       /\ RecordsUnchanged /\ NoMailSent]_vars

\* C12 witness: a request with a well-formed amount met a failing gateway and
\* was answered 500 after one call.
C12_Witness ==
  /\ last.route = InitializeRoute
  /\ last.amount = <<"2", "0">>
  /\ last.gateway = "fail"
  /\ last.gatewayCalls = 1
  /\ last.status = 500
  /\ ~last.leak

\* C13 (as claimed): no response carries the error object or the error
\* message of an upstream service; a failed upstream call is answered with a
\* generic body.
C13_NoUpstreamErrorInBody == last.handler => ~last.leak

\* The characters a sanitised file name may consist of.
SafeKeyChars == SafeChars \cup {"_"}

\* C14 (as claimed): the storage key an upload request builds carries a file
\* name made of safe characters only, and is a key that no earlier upload
\* has built (here: none that is already stored), also when both uploads
\* fall into one clock tick.
C14_UploadKeysSafeAndUnique ==
  [][(nreq' = nreq + 1 /\ last'.key # NoKey) =>
       /\ \A i \in DOMAIN last'.key.name : last'.key.name[i] \in SafeKeyChars
       /\ last'.key \notin storage]_vars

\* C14, the uniqueness part alone.
C14_UploadKeysUnique ==
  [][(nreq' = nreq + 1 /\ last'.key # NoKey) => last'.key \notin storage]_vars

\* The origin is of the kind the policy names: an entry of the deployed
\* iteration's allow-list, or a subdomain of the wildcard domain.
PermittedOrigin(origin) == origin \in allowedOrigins(variant) \/ EndsWithVercelApp(origin)

\* C15 (as claimed): a request that carries an Origin header outside the
\* allow-list and the wildcard rule reaches no route handler, and its response
\* grants that origin no cross-origin access.
C15_ForeignOriginIsRejected ==
  (last.origin # NoOrigin /\ ~PermittedOrigin(last.origin)) =>
    /\ ~last.handler
    /\ last.acao \notin {last.origin, Star}

\* C15 restricted to the iterations whose gate is an origin callback.
C15_CallbackGateRejectsForeignOrigin ==
  (variant \in {"server", "part_001", "part_003"}
     /\ last.origin # NoOrigin /\ ~PermittedOrigin(last.origin)) =>
    /\ ~last.handler
    /\ last.acao \notin {last.origin, Star}

UploadRoute == "POST /api/admin/upload"

\* C16 (as claimed): an upload request that reaches the handler without a
\* file (so no storage key is built) is answered 400 and writes nothing to
\* object storage or the database.
C16_UploadWithoutFileIs400 ==
  [][(Handled(UploadRoute) /\ last'.handler /\ last'.key = NoKey) =>
       (last'.status = 400 /\ RecordsUnchanged)]_vars

\* C17 (as claimed): a request that matches no registered route is answered
\* 404 with a JSON body and changes no stored state.
C17_UnmatchedRouteIsJson404 ==
  [][Handled("unmatched") =>
       (last'.status = 404 /\ ~last'.html /\ RecordsUnchanged /\ NoMailSent)]_vars

\* C18 (as claimed): every webhook request whose signature header is the
\* HMAC of the raw body as received, keyed with the gateway secret, is
\* accepted (not answered 401), whatever the layout of the body text.
C18_RawBodySignatureAccepted ==
  (last.route = WebhookRoute /\ last.sig = <<Hmac(Secret, last.raw)>>) => last.status # 401

\* C19 (as claimed): every request that reached a route handler has been
\* answered, whatever the outcomes of the upstream calls the handler made.
C19_HandlerAlwaysResponds == last.handler => last.status # NoResponse

\* C20 (as claimed): a status-update step that sends the completion email has
\* applied the update to an application record: the record named by the
\* request existed and now carries the requested status.
C20_MailOnlyAfterAppliedUpdate ==
  [][(Handled(StatusRoute) /\ Sent # <<>>) =>
       /\ last'.id \in RowIds
       /\ applications[last'.id].exists
       /\ applications'[last'.id].status = last'.newStatus]_vars

ApplicationsRoute == "POST /api/applications"

\* C21 (as claimed): a submission answered 500 has left no new application
\* record in the store, and a submission that inserted a record is answered
\* 201.
C21_SubmissionIsAllOrNothing ==
  [][Handled(ApplicationsRoute) =>
       /\ last'.status = 500 => applications' = applications
       /\ applications' # applications => last'.status = 201]_vars

TrackRoute == "GET /api/track"

\* C22 (as claimed): a tracking request whose lookup reached the database
\* without an upstream failure is answered with a record whose email or
\* payment reference equals the query whenever such a record exists, and is
\* answered 404 only when none exists.
C22_TrackFindsEveryMatch ==
  (last.route = TrackRoute /\ last.lookup = "ok") =>
    /\ TrackMatches(last.query) # {} =>
         (last.status = 200 /\ last.found \in TrackMatches(last.query))
    /\ last.status = 404 => TrackMatches(last.query) = {}

====
